---- MODULE Spec2Model ----
(***************************************************************************)
(* Model of the sonicrust playback orchestrator: the App state machine     *)
(* (src/app.rs, src/app/*.rs), the audio backend (src/player.rs), the MPRIS *)
(* adapter and its bounded command channel (src/mpris_handler.rs), the     *)
(* library requests (src/subsonic.rs) and the host loop (src/main.rs).     *)
(*                                                                         *)
(* Operations that exist in src/app/*.rs are modelled from there (they are *)
(* the ones main.rs and ui.rs call); App::update and App::new exist only   *)
(* in src/app.rs and are modelled from it.  Volumes are in tenths (10 is   *)
(* 1.0), positions in whole seconds, queue positions are 0-based as in the *)
(* code.                                                                   *)
(***************************************************************************)
EXTENDS Integers, Sequences, FiniteSets, TLC

VARIABLES
    app,              \* fields of struct App
    player,           \* struct Player: sink and volume
    shared_state,     \* PlayerState behind the RwLock
    command_channel,  \* mpsc channel of PlayerCommand, oldest first
    pc,               \* position of the host loop of run_app
    \* the journal of the current iteration of run_app's loop
    sent,             \* number of adapter calls
    accepted,         \* the commands try_send accepted, in order
    applied,          \* the commands App::update applied, in order
    trail,            \* playing_index before each applied command
    dropped,          \* number of commands try_send rejected
    adapterResult,    \* what the last adapter call returned to its caller
    lastOp,           \* the operation the orchestrator ran last
    lastResult,       \* the Result that operation returned
    prevIndex,        \* playing_index before that operation
    lastLog,          \* the remote and backend calls that operation made
    guard,            \* the RwLock of shared_state: the orchestrator's write guard
    observed,         \* the value an MPRIS client last read of each property
    pure,             \* a call of a function without state: argument and result
    task              \* the orchestrator's task: the guards it holds, what it does next

vars == <<app, player, shared_state, command_channel, pc, sent, accepted,
          applied, trail, dropped, adapterResult, lastOp, lastResult,
          prevIndex, lastLog, guard, observed, pure, task>>

(***************************************************************************)
(* Bounds of the model.                                                    *)
(***************************************************************************)
MaxSends == 1
MaxPairSends == 2
MaxBurst == 40
MaxPos == 1
MaxSeekSends == 1
MaxQueue == 3
MaxAlbums == 150

(***************************************************************************)
(* Program constants.                                                      *)
(***************************************************************************)
ChannelCapacity == 32
VolumeMax == 10
VolumeStep == 1
SeekStep == 5
AlbumListSize == 500

NoTrack == 0
Tracks == {1, 2, 3}

(***************************************************************************)
(* The library the client serves.  Songs, favourites and the search        *)
(* results are lists of tracks; the single album, artist and playlist each *)
(* resolve to AlbumSongs when their fetch succeeds.  LibrarySongs,         *)
(* LibraryArtists and LibraryAlbums are what refresh_library loaded in     *)
(* App::new.                                                               *)
(***************************************************************************)
LibrarySongs == <<2>>
LibraryFavorites == <<3>>
SearchResults == <<1, 2, 3>>
AlbumSongs == <<1, 2, 3>>
LibraryAlbums == <<1>>
LibraryArtists == <<1>>

Tabs == {"Songs", "Favorites", "Search", "Artists", "Albums", "Playlist"}
Sections == {"Queue", "Others"}

Min(a, b) == IF a < b THEN a ELSE b
Max(a, b) == IF a > b THEN a ELSE b
clamp(v, lo, hi) == Max(lo, Min(v, hi))
saturating_sub(a, b) == IF a > b THEN a - b ELSE 0

\* Vec::get with the code's 0-based index; NoTrack stands for None
Get(data, i) == IF i >= 0 /\ i < Len(data) THEN data[i + 1] ELSE NoTrack

(***************************************************************************)
(* mpris_handler.rs                                                        *)
(***************************************************************************)
DefaultMetadata == [trackid |-> NoTrack, length |-> 0]

\* Track.duration of the library's tracks, in seconds
TrackDuration(track) == track + 1

track_to_metadata(track) == [trackid |-> track, length |-> TrackDuration(track)]

(***************************************************************************)
(* player.rs: the sink is None or a rodio Sink with its pause flag, whether *)
(* its source queue is empty, its position, the stream it was given and    *)
(* whether Sink::stop() emptied it.                                        *)
(***************************************************************************)
NoSink == [present |-> FALSE, paused |-> FALSE, empty |-> TRUE, pos |-> 0,
           track |-> NoTrack, stopped |-> FALSE]

Player_new == [sink |-> NoSink, volume |-> VolumeMax]

\* load_url takes the old sink before it fetches; a failed fetch or decode
\* returns the error with the sink left None
load_url(p, track, ok) ==
    IF ok
    THEN [p EXCEPT !.sink = [present |-> TRUE, paused |-> FALSE,
                             empty |-> FALSE, pos |-> 0, track |-> track,
                             stopped |-> FALSE]]
    ELSE [p EXCEPT !.sink = NoSink]

is_finished(p) == p.sink.present /\ p.sink.empty /\ ~p.sink.paused

has_track_loaded(p) == p.sink.present

get_position(p) == IF p.sink.present THEN p.sink.pos ELSE 0

Player_play(p) == IF p.sink.present THEN [p EXCEPT !.sink.paused = FALSE] ELSE p

Player_stop(p) ==
    IF p.sink.present
    THEN [p EXCEPT !.sink.empty = TRUE,
                   !.sink.stopped = ~p.sink.empty \/ p.sink.stopped]
    ELSE p

Player_pause(p) == IF p.sink.present THEN [p EXCEPT !.sink.paused = TRUE] ELSE p

\* try_seek either fails (land < 0) or leaves the sink at position land
Player_seek(p, land) ==
    IF p.sink.present /\ land >= 0 THEN [p EXCEPT !.sink.pos = land] ELSE p

seek_relative_ok(p, land) == ~p.sink.present \/ land >= 0

Player_set_volume(p, volume) == [p EXCEPT !.volume = clamp(volume, 0, VolumeMax)]

(***************************************************************************)
(* The orchestrator's operations work on a world w: the App fields, the    *)
(* Player behind its mutex, the shared PlayerState and the Result of the   *)
(* operation.  env holds what the collaborators answer during the          *)
(* operation:                                                              *)
(*   env.load      load_url succeeds                                       *)
(*   env.scrobble  the "now playing" scrobble of start_playback succeeds   *)
(*   env.report    the completion scrobble of on_track_finished succeeds   *)
(*   env.fetch     the songs a remote album/artist/playlist fetch returns  *)
(*   env.land      where try_seek leaves the sink, -1 when it fails        *)
(* An operation returns at its first error, so the outcomes that differ    *)
(* from EnvOk in one answer cover every run of an operation.               *)
(***************************************************************************)
FetchOutcomes == {[ok |-> FALSE, songs |-> <<>>],
                  [ok |-> TRUE, songs |-> <<>>],
                  [ok |-> TRUE, songs |-> AlbumSongs]}

EnvOk == [load |-> TRUE, scrobble |-> TRUE, report |-> TRUE,
          fetch |-> [ok |-> TRUE, songs |-> AlbumSongs], land |-> 0]

EnvOutcomes ==
    {[EnvOk EXCEPT !.load = FALSE], [EnvOk EXCEPT !.scrobble = FALSE],
     [EnvOk EXCEPT !.report = FALSE]}
    \cup {[EnvOk EXCEPT !.fetch = f] : f \in FetchOutcomes}
    \cup {[EnvOk EXCEPT !.land = l] : l \in -1..MaxPos}

World == [app |-> app, player |-> player, shared |-> shared_state,
          result |-> "Ok", log |-> <<>>]

\* the operation calls a collaborator: the completion report ("report"),
\* Player::load_url ("load") or the now-playing scrobble ("scrobble")
Call(w, call, track) ==
    [w EXCEPT !.log = Append(@, [call |-> call, track |-> track])]

Failed(w) == w.result # "Ok"

Status(a) ==
    IF a.is_playing THEN "Playing"
    ELSE IF a.current_track # NoTrack THEN "Paused"
    ELSE "Stopped"

\* a sync that tells Playing from Stopped only
sync_mpris_flag_only(w) ==
    LET a == w.app
        status == IF a.is_playing THEN "Playing" ELSE "Stopped"
        can_next == a.queue_index < saturating_sub(Len(a.queue), 1)
        can_prev == a.queue_index > 0
        current_pos == get_position(w.player)
    IN  [w EXCEPT !.shared = [@ EXCEPT !.status = status,
                                       !.metadata = a.metadata,
                                       !.can_go_next = can_next,
                                       !.can_go_previous = can_prev,
                                       !.position = current_pos]]

\* app/mpris.rs: one write guard covers the five assignments
sync_mpris(w) ==
    LET a == w.app
        status == Status(a)
        can_next == a.queue_index < saturating_sub(Len(a.queue), 1)
        can_prev == a.queue_index > 0
        current_pos == get_position(w.player)
    IN  [w EXCEPT !.shared = [@ EXCEPT !.status = status,
                                       !.metadata = a.metadata,
                                       !.can_go_next = can_next,
                                       !.can_go_previous = can_prev,
                                       !.position = current_pos]]

\* a tick that never copies the position
update_mpris_position_skipped(w) == w

\* app/mpris.rs: update_mpris_position
update_mpris_position(w) ==
    IF w.app.is_playing
    THEN [w EXCEPT !.shared.position = get_position(w.player)]
    ELSE w

\* app/playback.rs: start_playback
start_playback(w, track, queue_index, env) ==
    LET w0 == Call(w, "load", track)
    IN  IF ~env.load
        THEN [w0 EXCEPT !.player = load_url(w.player, track, FALSE),
                        !.result = "Err"]
        ELSE LET w1 == [w0 EXCEPT !.player = Player_play(load_url(w.player, track, TRUE)),
                                  !.app.is_playing = TRUE,
                                  !.app.playing_index = queue_index,
                                  !.app.current_track = track,
                                  !.app.metadata = track_to_metadata(track)]
                 w2 == Call(sync_mpris(w1), "scrobble", track)
             IN  IF env.scrobble THEN w2 ELSE [w2 EXCEPT !.result = "Err"]

\* a start that always takes the first entry of the queue
play_from_queue_first(w, index, env) ==
    IF Get(w.app.queue, 0) # NoTrack
    THEN start_playback(w, Get(w.app.queue, 0), 0, env)
    ELSE w

play_from_queue(w, index, env) ==
    IF Get(w.app.queue, index) # NoTrack
    THEN start_playback(w, Get(w.app.queue, index), index, env)
    ELSE w

play_selected_section(w, songindex, env) ==
    LET inQueue == w.app.active_section = "Queue"
        track_to_play == IF inQueue THEN Get(w.app.queue, songindex) ELSE NoTrack
        w1 == IF inQueue THEN [w EXCEPT !.app.playing_index = songindex] ELSE w
    IN  IF track_to_play # NoTrack
        THEN start_playback(w1, track_to_play, w1.app.queue_index, env)
        ELSE sync_mpris([w1 EXCEPT !.player = Player_stop(w1.player),
                                   !.app.is_playing = FALSE,
                                   !.app.current_track = NoTrack])

\* the list shown by a library tab
TabData(a, tab) ==
    CASE tab = "Songs" -> a.tracks
      [] tab = "Favorites" -> LibraryFavorites
      [] tab = "Search" -> a.search_data
      [] tab = "Artists" -> a.artists
      [] tab = "Albums" -> a.albums
      [] OTHER -> LibraryAlbums

\* the arms of play_selected that take the queue from a local list
ReplaceFromList(w, tab) ==
    LET a == w.app
        track == Get(TabData(a, tab), a.tab_index[tab])
    IN  IF track = NoTrack THEN [w |-> w, track |-> NoTrack]
        ELSE IF tab = "Search"
        THEN [w |-> [w EXCEPT !.app.queue = a.search_data,
                              !.app.queue_index = a.tab_index[tab],
                              !.app.playing_index = a.tab_index[tab]],
              track |-> track]
        ELSE [w |-> [w EXCEPT !.app.queue = <<track>>,
                              !.app.queue_index = 0,
                              !.app.playing_index = 0],
              track |-> track]

\* the arms that fetch the songs of the selected artist, album or playlist
ReplaceFromFetch(w, tab, env) ==
    LET a == w.app
    IN  IF Get(TabData(a, tab), a.tab_index[tab]) = NoTrack
        THEN [w |-> w, track |-> NoTrack]
        ELSE IF ~env.fetch.ok
        THEN [w |-> [w EXCEPT !.result = "Err"], track |-> NoTrack]
        ELSE IF env.fetch.songs = <<>>
        THEN [w |-> w, track |-> NoTrack]
        ELSE [w |-> [w EXCEPT !.app.queue = env.fetch.songs,
                              !.app.queue_index = 0,
                              !.app.playing_index = 0],
              track |-> env.fetch.songs[1]]

play_selected(w, songindex, env) ==
    IF w.app.active_section = "Queue"
    THEN play_selected_section(w, songindex, env)
    ELSE LET tab == w.app.active_tab
             r == IF tab \in {"Search", "Favorites", "Songs"}
                  THEN ReplaceFromList(w, tab)
                  ELSE ReplaceFromFetch(w, tab, env)
         IN  IF Failed(r.w) THEN r.w
             ELSE IF r.track # NoTrack
             THEN LET w1 == start_playback(r.w, r.track, r.w.app.queue_index, env)
                  IN  IF Failed(w1) THEN w1 ELSE sync_mpris(w1)
             ELSE sync_mpris([r.w EXCEPT !.player = Player_stop(r.w.player),
                                         !.app.is_playing = FALSE,
                                         !.app.current_track = NoTrack])

\* app/playback.rs: toggle_playback, with its branches in the code's order
toggle_playback(w, env) ==
    LET a == w.app
    IN  IF a.is_playing
        THEN sync_mpris([w EXCEPT !.player = Player_pause(w.player),
                                  !.app.is_playing = FALSE])
        ELSE IF a.current_track = NoTrack
        THEN [w EXCEPT !.result = "NoTrackLoaded"]
        ELSE IF a.current_track # NoTrack
        THEN IF has_track_loaded(w.player)
             THEN sync_mpris([w EXCEPT !.player = Player_play(w.player),
                                       !.app.is_playing = TRUE])
             ELSE sync_mpris(w)
        ELSE IF a.queue # <<>>
        THEN play_selected(w, a.playing_index, env)
        ELSE [w EXCEPT !.result = "EmptyQueue"]

\* a next that restarts the entry at the Playing Index
play_next_same(w, env) ==
    LET a == w.app
    IN  IF a.current_track = NoTrack
        THEN [w EXCEPT !.result = "NoTrackLoaded"]
        ELSE IF a.queue = <<>>
        THEN [w EXCEPT !.result = "EmptyQueue"]
        ELSE play_from_queue(w, a.playing_index, env)

play_next(w, env) ==
    LET a == w.app
    IN  IF a.current_track = NoTrack
        THEN [w EXCEPT !.result = "NoTrackLoaded"]
        ELSE IF a.queue = <<>>
        THEN [w EXCEPT !.result = "EmptyQueue"]
        ELSE IF a.playing_index < Len(a.queue) - 1
        THEN play_from_queue(w, a.playing_index + 1, env)
        ELSE sync_mpris([w EXCEPT !.player = Player_stop(w.player),
                                  !.app.is_playing = FALSE,
                                  !.app.current_track = NoTrack,
                                  !.app.metadata = DefaultMetadata])

play_previous(w, env) ==
    LET a == w.app
    IN  IF a.queue = <<>>
        THEN [w EXCEPT !.result = "EmptyQueue"]
        ELSE IF a.playing_index > 0
        THEN play_from_queue(w, a.playing_index - 1, env)
        ELSE sync_mpris([w EXCEPT !.player = Player_stop(w.player),
                                  !.app.is_playing = FALSE,
                                  !.app.metadata = DefaultMetadata])

\* a stop that keeps the current track
stop_playback_keeps_track(w) ==
    sync_mpris([w EXCEPT !.player = Player_stop(w.player),
                         !.app.is_playing = FALSE,
                         !.app.metadata = DefaultMetadata])

stop_playback(w) ==
    sync_mpris([w EXCEPT !.player = Player_stop(w.player),
                         !.app.is_playing = FALSE,
                         !.app.current_track = NoTrack,
                         !.app.metadata = DefaultMetadata])

\* a set_volume that publishes the requested value as it came
set_volume_unclamped(w, volume) ==
    [w EXCEPT !.player = Player_set_volume(w.player, volume),
              !.shared.volume = volume]

set_volume(w, volume) ==
    LET clamped == clamp(volume, 0, VolumeMax)
    IN  [w EXCEPT !.player = Player_set_volume(w.player, clamped),
                  !.shared.volume = clamped]

\* a transition that decides first and reports afterwards
on_track_finished_reports_last(w, env) ==
    LET a == w.app
        w1 == IF a.on_repeat
              THEN play_selected(w, a.playing_index, env)
              ELSE IF a.playing_index < saturating_sub(Len(a.queue), 1)
              THEN play_next(w, env)
              ELSE sync_mpris([w EXCEPT !.app.is_playing = FALSE,
                                        !.app.current_track = NoTrack,
                                        !.app.metadata = DefaultMetadata])
        w2 == Call(w1, "report", a.current_track)
    IN  IF Failed(w1) THEN w1
        ELSE IF env.report THEN w2 ELSE [w2 EXCEPT !.result = "Err"]

on_track_finished(w, env) ==
    LET a == w.app
        w0 == Call(w, "report", a.current_track)
    IN  IF ~env.report
        THEN [w0 EXCEPT !.result = "Err"]
        ELSE IF a.on_repeat
        THEN play_selected(w0, a.playing_index, env)
        ELSE IF a.playing_index < saturating_sub(Len(a.queue), 1)
        THEN play_next(w0, env)
        ELSE sync_mpris([w0 EXCEPT !.app.is_playing = FALSE,
                                   !.app.current_track = NoTrack,
                                   !.app.metadata = DefaultMetadata])

TrackFinishedDue(w) ==
    /\ w.app.is_playing
    /\ w.app.current_track # NoTrack
    /\ is_finished(w.player)
    /\ has_track_loaded(w.player)

check_track_finished(w, env) ==
    IF TrackFinishedDue(w) THEN on_track_finished(w, env) ELSE w

(***************************************************************************)
(* player.rs: PlayerCommand, and the arguments the adapter is called with. *)
(***************************************************************************)
VolumeInputs == {-5, 5, 15}
SeekRelativeInputs == {-1, 1}
SeekAbsoluteInputs == {1}

Cmd(kind, arg) == [kind |-> kind, arg |-> arg]

TransportInputs ==
    {Cmd(k, 0) : k \in {"Play", "Pause", "Stop", "TogglePlayPause", "Next",
                        "Previous"}}

CommandInputs ==
    TransportInputs
    \cup {Cmd("SetVolume", v) : v \in VolumeInputs}
    \cup {Cmd("SeekRelative", d) : d \in SeekRelativeInputs}
    \cup {Cmd("SeekAbsolute", t) : t \in SeekAbsoluteInputs}

(***************************************************************************)
(* app.rs: the arms of the match in App::update.                           *)
(***************************************************************************)
\* a Play arm that resumes without asking for a current track
cmd_play_unguarded(w, env) ==
    sync_mpris([w EXCEPT !.player = Player_play(w.player),
                         !.app.is_playing = TRUE])

cmd_play(w, env) ==
    IF w.app.current_track # NoTrack
    THEN sync_mpris([w EXCEPT !.player = Player_play(w.player),
                              !.app.is_playing = TRUE])
    ELSE IF w.app.queue # <<>>
    THEN play_selected(w, w.app.playing_index, env)
    ELSE w

cmd_pause(w) ==
    sync_mpris([w EXCEPT !.player = Player_pause(w.player),
                         !.app.is_playing = FALSE])

cmd_seek_relative(w, env) ==
    IF ~seek_relative_ok(w.player, env.land)
    THEN [w EXCEPT !.result = "Err"]
    ELSE LET p == Player_seek(w.player, env.land)
         IN  [w EXCEPT !.player = p, !.shared.position = get_position(p)]

\* a seek that leaves the published position alone
cmd_seek_absolute_stale(w, env) ==
    [w EXCEPT !.player = Player_seek(w.player, env.land)]

cmd_seek_absolute(w, env) ==
    LET p == Player_seek(w.player, env.land)
    IN  [w EXCEPT !.player = p, !.shared.position = get_position(p)]

apply_command(w, cmd, env) ==
    CASE cmd.kind = "Play" -> cmd_play(w, env)
      [] cmd.kind = "Pause" -> cmd_pause(w)
      [] cmd.kind = "Stop" -> stop_playback(w)
      [] cmd.kind = "TogglePlayPause" -> toggle_playback(w, env)
      [] cmd.kind = "SetVolume" -> set_volume(w, cmd.arg)
      [] cmd.kind = "Next" -> play_next(w, env)
      [] cmd.kind = "Previous" -> play_previous(w, env)
      [] cmd.kind = "SeekRelative" -> cmd_seek_relative(w, env)
      [] cmd.kind = "SeekAbsolute" -> cmd_seek_absolute(w, env)

(***************************************************************************)
(* App::new                                                                *)
(***************************************************************************)
App_new ==
    [queue |-> <<>>, queue_index |-> 0, playing_index |-> 0,
     is_playing |-> FALSE, current_track |-> NoTrack,
     metadata |-> DefaultMetadata, on_repeat |-> FALSE,
     active_section |-> "Queue", active_tab |-> "Songs",
     tab_index |-> [t \in Tabs |-> 0], search_data |-> <<>>,
     search_query |-> FALSE, input_mode |-> "Normal",
     current_volume |-> VolumeMax,
     tracks |-> LibrarySongs, artists |-> LibraryArtists,
     albums |-> LibraryAlbums]

PlayerState_new ==
    [status |-> "Stopped", metadata |-> DefaultMetadata, volume |-> VolumeMax,
     can_go_next |-> FALSE, can_go_previous |-> FALSE, position |-> 0]

\* the property getters of the adapter, each under its own read guard;
\* Volume::default() is 0.0
MprisPlayer_playback_status(s) == s.status

MprisPlayer_metadata(s) == s.metadata

MprisPlayer_volume(s) == 0

MprisPlayer_position(s) == s.position

MprisPlayer_can_go_next(s) == s.can_go_next

MprisPlayer_can_go_previous(s) == s.can_go_previous

ReadProperty(s, property) ==
    CASE property = "status" -> MprisPlayer_playback_status(s)
      [] property = "metadata" -> MprisPlayer_metadata(s)
      [] property = "volume" -> MprisPlayer_volume(s)
      [] property = "position" -> MprisPlayer_position(s)
      [] property = "can_go_next" -> MprisPlayer_can_go_next(s)
      [] property = "can_go_previous" -> MprisPlayer_can_go_previous(s)

\* no write guard is taken and no assignment is pending
NoGuard == [held |-> FALSE, pending |-> <<>>, target |-> PlayerState_new]

\* the program after App::new
\* the task runs no operation and holds no guard
NoTask == [op |-> "None", path |-> <<>>, player |-> FALSE, write |-> FALSE,
           read |-> FALSE, blocked |-> FALSE]

InitProgram ==
    /\ app = App_new
    /\ player = Player_new
    /\ shared_state = PlayerState_new
    /\ command_channel = <<>>
    /\ pc = "poll"
    /\ sent = 0
    /\ accepted = <<>>
    /\ applied = <<>>
    /\ trail = <<>>
    /\ dropped = 0
    /\ adapterResult = "None"
    /\ lastOp = "None"
    /\ lastResult = "Ok"
    /\ prevIndex = 0
    /\ lastLog = <<>>
    /\ guard = NoGuard
    /\ observed = [property \in DOMAIN PlayerState_new |->
                      ReadProperty(PlayerState_new, property)]
    /\ task = NoTask

\* no function call is being looked at
NoCall == [done |-> FALSE, input |-> <<>>, output |-> <<>>]

Init == InitProgram /\ pure = NoCall

\* the orchestrator ran op and is left in world w; an Err leaves run_app
Commit(w, op, next) ==
    /\ app' = w.app
    /\ player' = w.player
    /\ shared_state' = w.shared
    /\ lastOp' = op
    /\ lastResult' = w.result
    /\ prevIndex' = app.playing_index
    /\ lastLog' = w.log
    /\ pc' = IF Failed(w) THEN "exited" ELSE next

Bus ==
    <<command_channel, sent, accepted, applied, trail, dropped, adapterResult>>

Lock == <<guard, observed, pure, task>>

(***************************************************************************)
(* mpris_handler.rs: every action verb of the adapter is send_command and  *)
(* Ok(()).                                                                 *)
(***************************************************************************)
\* a sender on an unbounded channel
send_command_unbounded(cmd, id) ==
    /\ command_channel' = Append(command_channel, [id |-> id, cmd |-> cmd])
    /\ accepted' = Append(accepted, [id |-> id, cmd |-> cmd])
    /\ dropped' = dropped

send_command(cmd, id) ==
    IF Len(command_channel) < ChannelCapacity
    THEN /\ command_channel' = Append(command_channel, [id |-> id, cmd |-> cmd])
         /\ accepted' = Append(accepted, [id |-> id, cmd |-> cmd])
         /\ dropped' = dropped
    ELSE /\ dropped' = dropped + 1
         /\ UNCHANGED <<command_channel, accepted>>

\* one call of an adapter verb, passing one of the commands in inputs
AdapterCallOf(inputs, bound) ==
    /\ pc # "exited"
    /\ sent < bound
    /\ \E cmd \in inputs : send_command(cmd, sent + 1)
    /\ sent' = sent + 1
    /\ adapterResult' = "Ok"
    /\ UNCHANGED <<app, player, shared_state, pc, applied, trail, lastOp,
                   lastResult, prevIndex, lastLog>>
    /\ UNCHANGED Lock

(***************************************************************************)
(* app.rs: App::update.  TickBegin is check_track_finished followed by    *)
(* update_mpris_position; the drain loop takes one command per step.       *)
(***************************************************************************)
TickBegin ==
    /\ pc = "tick"
    /\ \E env \in EnvOutcomes :
         IF TrackFinishedDue(World)
         THEN LET w == on_track_finished(World, env)
              IN  Commit(IF Failed(w) THEN w ELSE update_mpris_position(w),
                         "TrackFinished", "drain")
         ELSE /\ shared_state' = update_mpris_position(World).shared
              /\ pc' = "drain"
              /\ UNCHANGED <<app, player, lastOp, lastResult, prevIndex,
                             lastLog>>
    /\ UNCHANGED Bus
    /\ UNCHANGED Lock

\* a receiver that hands out the newest pending command
try_recv_newest == command_channel[Len(command_channel)]

try_recv == Head(command_channel)

ApplyCommand ==
    /\ pc = "drain"
    /\ command_channel # <<>>
    /\ \E env \in EnvOutcomes :
         Commit(apply_command(World, try_recv.cmd, env), try_recv.cmd.kind,
                "drain")
    /\ command_channel' = Tail(command_channel)
    /\ applied' = Append(applied, try_recv)
    /\ trail' = Append(trail, app.playing_index)
    /\ UNCHANGED <<sent, accepted, dropped, adapterResult>>
    /\ UNCHANGED Lock

\* update returns Ok once try_recv finds the channel empty; the loop sleeps
\* and starts its next iteration with a fresh journal
TickEnd ==
    /\ pc = "drain"
    /\ command_channel = <<>>
    /\ pc' = "poll"
    /\ sent' = 0
    /\ accepted' = <<>>
    /\ applied' = <<>>
    /\ trail' = <<>>
    /\ dropped' = 0
    /\ adapterResult' = "None"
    /\ lastOp' = "None"
    /\ lastResult' = "Ok"
    /\ prevIndex' = 0
    /\ lastLog' = <<>>
    /\ UNCHANGED <<app, player, shared_state, command_channel>>
    /\ UNCHANGED Lock

(***************************************************************************)
(* The audio thread of the sink.                                           *)
(***************************************************************************)
SinkRunning == player.sink.present /\ ~player.sink.paused /\ ~player.sink.empty

SinkAdvance ==
    /\ pc # "exited"
    /\ SinkRunning
    /\ player.sink.pos < MaxPos
    /\ player' = [player EXCEPT !.sink.pos = @ + 1]
    /\ UNCHANGED <<app, shared_state, pc, lastOp, lastResult, prevIndex,
                   lastLog>>
    /\ UNCHANGED Bus
    /\ UNCHANGED Lock

SinkEnd ==
    /\ pc # "exited"
    /\ SinkRunning
    /\ player' = [player EXCEPT !.sink.empty = TRUE]
    /\ UNCHANGED <<app, shared_state, pc, lastOp, lastResult, prevIndex,
                   lastLog>>
    /\ UNCHANGED Bus
    /\ UNCHANGED Lock

(***************************************************************************)
(* app/navigation.rs, app/queue.rs, app/search.rs: what the keys do.  The  *)
(* ListState selection of a list follows its index (Tab::current and       *)
(* Tab::select set it from index), so navigate_list moves from index.      *)
(***************************************************************************)
navigate_list(len, index, forward) ==
    IF len > 0
    THEN IF forward THEN (index + 1) % len
         ELSE IF index = 0 THEN len - 1 ELSE index - 1
    ELSE index

navigate(a, forward) ==
    IF a.active_section = "Queue"
    THEN [a EXCEPT !.queue_index = navigate_list(Len(a.queue), @, forward)]
    ELSE [a EXCEPT !.tab_index[a.active_tab] =
                       navigate_list(Len(TabData(a, a.active_tab)), @, forward)]

\* a cursor that moves down without wrapping at the end of the list
next_item_in_tab_unbounded(a) ==
    IF a.active_section = "Queue"
    THEN [a EXCEPT !.queue_index = @ + 1]
    ELSE navigate(a, TRUE)

next_item_in_tab(a) == navigate(a, TRUE)

previous_item_in_tab(a) == navigate(a, FALSE)

next_tab(a) ==
    LET section == IF a.active_section = "Queue" THEN "Others" ELSE "Queue"
        a1 == [a EXCEPT !.active_section = section]
    IN  IF section = "Queue" THEN a1
        ELSE CASE a.active_tab = "Songs" ->
                    [a1 EXCEPT !.tab_index["Artists"] = a.tab_index["Songs"]]
               [] a.active_tab = "Artists" ->
                    [a1 EXCEPT !.tab_index["Albums"] = a.tab_index["Artists"]]
               [] a.active_tab = "Albums" ->
                    [a1 EXCEPT !.tab_index["Songs"] = a.tab_index["Albums"]]
               [] a.active_tab = "Search" ->
                    [a1 EXCEPT !.tab_index["Songs"] = a.tab_index["Search"]]
               [] OTHER -> a1

select_tab(a, tab) ==
    [a EXCEPT !.active_tab = tab,
              !.input_mode = IF a.active_tab = "Search" THEN "Normal" ELSE @]

enter_search_mode(a) ==
    [a EXCEPT !.input_mode = "Search", !.active_tab = "Search",
              !.search_query = FALSE, !.tab_index["Search"] = 0]

exit_search_mode(a) == [a EXCEPT !.input_mode = "Normal"]

\* search_query is kept as "is non-empty"; found is what the search returns
perform_search(a, found) ==
    IF ~a.search_query THEN a
    ELSE [a EXCEPT !.search_data = found, !.tab_index["Search"] = 0]

search_input(a) ==
    IF a.input_mode = "Search" THEN [a EXCEPT !.search_query = TRUE] ELSE a

find_selected(a) ==
    IF a.active_section = "Queue" THEN a.queue_index
    ELSE a.tab_index[a.active_tab]

add_search_result_to_queue(a) ==
    LET track == Get(a.search_data, a.tab_index["Search"])
    IN  IF track # NoTrack THEN [a EXCEPT !.queue = Append(@, track)] ELSE a

\* the songs _add_to_queue would append, or failure of its fetch
AddToQueueSongs(a, env) ==
    IF a.active_section = "Queue" THEN <<>>
    ELSE IF a.active_tab \in {"Songs", "Search", "Favorites"}
    THEN LET track == Get(TabData(a, a.active_tab), a.tab_index[a.active_tab])
         IN  IF track # NoTrack THEN <<track>> ELSE <<>>
    ELSE env.fetch.songs

\* an enqueue that puts the songs in front of the queue
add_to_queue_in_front(w, env) ==
    LET a == w.app
    IN  IF a.active_section = "Others"
           /\ a.active_tab \in {"Albums", "Artists", "Playlist"}
           /\ ~env.fetch.ok
        THEN [w EXCEPT !.result = "Err"]
        ELSE [w EXCEPT !.app.queue = AddToQueueSongs(a, env) \o @]

\* app/queue.rs: _add_to_queue
add_to_queue(w, env) ==
    LET a == w.app
    IN  IF a.active_section = "Others"
           /\ a.active_tab \in {"Albums", "Artists", "Playlist"}
           /\ ~env.fetch.ok
        THEN [w EXCEPT !.result = "Err"]
        ELSE [w EXCEPT !.app.queue = @ \o AddToQueueSongs(a, env)]

play_search_result(w, env) ==
    LET a == w.app
        track == Get(a.search_data, a.tab_index["Search"])
    IN  IF track # NoTrack
        THEN start_playback([w EXCEPT !.app.queue = <<track>>,
                                      !.app.queue_index = 0,
                                      !.app.playing_index = 0],
                            track, 0, env)
        ELSE w

(***************************************************************************)
(* main.rs: run_app polls one key per iteration, then calls update.        *)
(***************************************************************************)
NormalKeys == {"Space", "Up", "Down", "Enter", "Tab", "n", "p", "q", "1", "3"}

TabOfKey(key) ==
    CASE key = "1" -> "Songs"
      [] key = "2" -> "Artists"
      [] key = "3" -> "Albums"
      [] key = "4" -> "Playlist"
      [] key = "5" -> "Favorites"

AppOnly(w, a) == [w EXCEPT !.app = a]

\* the volume is read from the shared state and set_volume does the rest
adjust_volume(w, direction) ==
    LET delta == IF direction = "Up" THEN VolumeStep ELSE 0 - VolumeStep
        current == w.shared.volume
    IN  set_volume(w, current + delta)

handle_key(w, key, env) ==
    CASE key = "q" -> [w EXCEPT !.result = "Quit"]
      [] key = "Space" -> toggle_playback(w, env)
      [] key = "Up" -> AppOnly(w, previous_item_in_tab(w.app))
      [] key = "Down" -> AppOnly(w, next_item_in_tab(w.app))
      [] key = "Enter" -> play_selected(w, find_selected(w.app), env)
      [] key = "a" -> add_to_queue(w, env)
      [] key = "Tab" -> AppOnly(w, next_tab(w.app))
      [] key = "s" -> AppOnly(w, enter_search_mode(select_tab(w.app, "Search")))
      [] key = "n" -> play_next(w, env)
      [] key = "p" -> play_previous(w, env)
      [] key = "+" -> adjust_volume(w, "Up")
      [] key = "-" -> adjust_volume(w, "Down")
      [] OTHER -> AppOnly(w, select_tab(w.app, TabOfKey(key)))

SearchKeys == {"Esc", "Enter", "Char", "Ctrl-a"}

FoundOutcomes == {SearchResults}

handle_search_input(w, key, env, found) ==
    CASE key = "Esc" -> AppOnly(w, exit_search_mode(w.app))
      [] key = "Enter" ->
           IF w.app.search_query
           THEN LET w1 == play_search_result(w, env)
                IN  IF Failed(w1) THEN w1
                    ELSE AppOnly(w1, exit_search_mode(w1.app))
           ELSE AppOnly(w, perform_search(w.app, found))
      [] key = "Char" -> AppOnly(w, perform_search(search_input(w.app), found))
      [] key = "Ctrl-a" -> AppOnly(w, add_search_result_to_queue(w.app))

QueueRoom(w) == Len(w.app.queue) <= MaxQueue

\* the journal names the transport keys and the enqueue keys and calls every
\* other key "Key"
KeyOp(key) ==
    IF key \in {"Space", "n", "p", "a"} THEN key
    ELSE IF key = "Ctrl-a" THEN "a"
    ELSE "Key"

KeyPressOf(keys) ==
    /\ pc = "poll"
    /\ app.input_mode = "Normal"
    /\ \E key \in keys, env \in EnvOutcomes :
         LET w == handle_key(World, key, env)
         IN  /\ QueueRoom(w)
             /\ Commit(w, KeyOp(key), "tick")
    /\ UNCHANGED Bus
    /\ UNCHANGED Lock

SearchKeyPress ==
    /\ pc = "poll"
    /\ app.input_mode = "Search"
    /\ \E key \in SearchKeys, env \in EnvOutcomes, found \in FoundOutcomes :
         LET w == handle_search_input(World, key, env, found)
         IN  /\ QueueRoom(w)
             /\ Commit(w, KeyOp(key), "tick")
    /\ UNCHANGED Bus
    /\ UNCHANGED Lock

NoKey ==
    /\ pc = "poll"
    /\ pc' = "tick"
    /\ UNCHANGED <<app, player, shared_state, lastOp, lastResult, prevIndex,
                   lastLog>>
    /\ UNCHANGED Bus
    /\ UNCHANGED Lock

\* the repeat switch shown by ui.rs
ToggleRepeat ==
    /\ pc = "poll"
    /\ app.input_mode = "Normal"
    /\ Commit(AppOnly(World, [app EXCEPT !.on_repeat = ~@]), "Key", "tick")
    /\ UNCHANGED Bus
    /\ UNCHANGED Lock

(***************************************************************************)
(* subsonic.rs and App::refresh_library.  At the time of a refresh the     *)
(* server holds the albums 1..n, album k with the one song k, and one      *)
(* artist; remote.fail names the request of the refresh that fails, bad    *)
(* the album whose getAlbum request it is.                                 *)
(***************************************************************************)
AlbumCounts == {2, MaxAlbums}

RefreshOutcomes ==
    {[n |-> n, fail |-> f, bad |-> b] :
        n \in AlbumCounts,
        f \in {"none", "albums", "songs", "artists", "albums_again"},
        b \in {1}}

\* getAlbumList2 is asked once, for at most AlbumListSize albums
get_all_albums(remote) ==
    [k \in 1..Min(remote.n, AlbumListSize) |-> k]

get_songs_in_album(album, remote) ==
    IF remote.fail = "songs" /\ album = remote.bad
    THEN [ok |-> FALSE, songs |-> <<>>]
    ELSE [ok |-> TRUE, songs |-> <<album>>]

\* the loop of get_all_songs: a failing album ends it with the error, else
\* the songs of the albums follow each other in the order of the albums
songs_of_albums(albums, remote) ==
    IF \E i \in DOMAIN albums : ~get_songs_in_album(albums[i], remote).ok
    THEN [ok |-> FALSE, songs |-> <<>>]
    ELSE [ok |-> TRUE,
          songs |-> [i \in DOMAIN albums |->
                       get_songs_in_album(albums[i], remote).songs[1]]]

get_all_songs(remote) ==
    IF remote.fail = "albums" THEN [ok |-> FALSE, songs |-> <<>>]
    ELSE songs_of_albums(get_all_albums(remote), remote)

get_all_artists(remote) == <<1>>

\* app.rs: refresh_library assigns each list as soon as its fetch returned
refresh_library(w, remote) ==
    LET songs == get_all_songs(remote)
        w1 == [w EXCEPT !.app.tracks = songs.songs]
        w2 == [w1 EXCEPT !.app.artists = get_all_artists(remote)]
        w3 == [w2 EXCEPT !.app.albums = get_all_albums(remote)]
    IN  IF ~songs.ok THEN [w EXCEPT !.result = "Err"]
        ELSE IF remote.fail = "artists" THEN [w1 EXCEPT !.result = "Err"]
        ELSE IF remote.fail = "albums_again" THEN [w2 EXCEPT !.result = "Err"]
        ELSE w3

\* key r: run_app awaits refresh_library, whose requests are in flight
RefreshBegin ==
    /\ pc = "poll"
    /\ app.input_mode = "Normal"
    /\ pc' = "refresh"
    /\ lastOp' = "r"
    /\ UNCHANGED <<app, player, shared_state, lastResult, prevIndex, lastLog>>
    /\ UNCHANGED Bus
    /\ UNCHANGED Lock

\* the requests have answered and refresh_library returns
RefreshEnd ==
    /\ pc = "refresh"
    /\ \E remote \in RefreshOutcomes :
         Commit(refresh_library(World, remote), "r", "tick")
    /\ UNCHANGED Bus
    /\ UNCHANGED Lock

(***************************************************************************)
(* The playback specification: the keys that choose what plays, the        *)
(* transport verbs of the adapter, the tick and the audio thread.          *)
(***************************************************************************)
TransportAt(i) == TransportInputs

AdapterCall == AdapterCallOf(TransportAt(sent + 1), MaxSends)

TransportKeys == {"Enter", "Down", "Tab", "3"}

KeyPress == KeyPressOf(TransportKeys)

Next ==
    \/ AdapterCall
    \/ KeyPress
    \/ NoKey
    \/ TickBegin
    \/ ApplyCommand
    \/ TickEnd
    \/ SinkAdvance
    \/ SinkEnd

Spec == Init /\ [][Next]_vars

(***************************************************************************)
(* The same with an adapter that sends Next and Previous back to back.     *)
(***************************************************************************)
PairAt(i) == {Cmd("Next", 0), Cmd("Previous", 0)}

AdapterPair == AdapterCallOf(PairAt(sent + 1), MaxPairSends)

NextPair ==
    \/ AdapterPair
    \/ KeyPress
    \/ NoKey
    \/ TickBegin
    \/ ApplyCommand
    \/ TickEnd
    \/ SinkAdvance
    \/ SinkEnd

SpecPair == Init /\ [][NextPair]_vars

(***************************************************************************)
(* The same without the adapter and with the repeat switch.                *)
(***************************************************************************)
NextRepeat ==
    \/ KeyPress
    \/ ToggleRepeat
    \/ NoKey
    \/ TickBegin
    \/ TickEnd
    \/ SinkAdvance
    \/ SinkEnd

SpecRepeat == Init /\ [][NextRepeat]_vars

\* run_app's loop never pauses for good and the audio thread keeps playing:
\* some step is taken whenever one is possible
SpecRepeatLive == SpecRepeat /\ WF_vars(NextRepeat)

(***************************************************************************)
(* The keyboard alone, with the transport keys of run_app: Space, n and p. *)
(***************************************************************************)
TransportKeySet == {"Space", "n", "p", "Enter", "Tab", "3"}

KeyPressTransport == KeyPressOf(TransportKeySet)

NextKeys ==
    \/ KeyPressTransport
    \/ NoKey
    \/ TickBegin
    \/ TickEnd
    \/ SinkAdvance
    \/ SinkEnd

SpecKeys == Init /\ [][NextKeys]_vars

(***************************************************************************)
(* Playback of the Songs tab with an MPRIS client that seeks and pauses.   *)
(***************************************************************************)
SeekAt(i) ==
    {Cmd("SeekRelative", d) : d \in SeekRelativeInputs}
    \cup {Cmd("SeekAbsolute", t) : t \in SeekAbsoluteInputs}
    \cup {Cmd("Pause", 0)}

AdapterSeek == AdapterCallOf(SeekAt(sent + 1), MaxSeekSends)

SeekKeys == {"Enter", "Tab"}

KeyPressSeek == KeyPressOf(SeekKeys)

NextSeek ==
    \/ AdapterSeek
    \/ KeyPressSeek
    \/ NoKey
    \/ TickBegin
    \/ ApplyCommand
    \/ TickEnd
    \/ SinkAdvance
    \/ SinkEnd

SpecSeek == Init /\ [][NextSeek]_vars

(***************************************************************************)
(* The command bus alone: an MPRIS client that calls the adapter up to     *)
(* MaxBurst times per iteration of the host loop, its i-th call being      *)
(* BurstScript[i], while the loop ticks.                                   *)
(***************************************************************************)
BurstScript ==
    <<Cmd("SetVolume", 15), Cmd("Pause", 0), Cmd("SetVolume", 5),
      Cmd("Play", 0), Cmd("SetVolume", -5), Cmd("Stop", 0),
      Cmd("SeekAbsolute", 1)>>

BurstAt(i) == {BurstScript[((i - 1) % Len(BurstScript)) + 1]}

AdapterBurst == AdapterCallOf(BurstAt(sent + 1), MaxBurst)

NextBus ==
    \/ AdapterBurst
    \/ NoKey
    \/ TickBegin
    \/ ApplyCommand
    \/ TickEnd

SpecBus == Init /\ [][NextBus]_vars

(***************************************************************************)
(* The shared state and its lock.  A key handler that ends in sync_mpris   *)
(* runs up to the point where sync_mpris takes the write guard; the five   *)
(* assignments are then made one at a time while an MPRIS client reads     *)
(* properties, each getter under a read guard of its own.                  *)
(***************************************************************************)
SyncFields ==
    <<"status", "metadata", "can_go_next", "can_go_previous", "position">>

\* a sync that takes the lock anew for every assignment
write_guard_per_field(pending) == FALSE

\* app/mpris.rs: the guard lives until the block of assignments ends
write_guard(pending) == pending # <<>>

GuardKeys == {"Enter", "Tab", "3", "Space"}

KeyPressGuarded ==
    /\ pc = "poll"
    /\ app.input_mode = "Normal"
    /\ \E key \in GuardKeys, env \in EnvOutcomes :
         LET w == handle_key(World, key, env)
         IN  /\ QueueRoom(w)
             /\ IF w.shared # shared_state
                THEN /\ app' = w.app
                     /\ player' = w.player
                     /\ lastOp' = KeyOp(key)
                     /\ lastResult' = w.result
                     /\ prevIndex' = app.playing_index
                     /\ lastLog' = w.log
                     /\ pc' = "write"
                     /\ guard' = [held |-> write_guard(SyncFields),
                                  pending |-> SyncFields,
                                  target |-> w.shared]
                     /\ UNCHANGED shared_state
                ELSE /\ Commit(w, KeyOp(key), "tick")
                     /\ UNCHANGED guard
    /\ UNCHANGED <<observed, pure, task>>
    /\ UNCHANGED Bus

\* one assignment through the guard; the guard is dropped after the last,
\* and the handler returns its Result to run_app
WriteField ==
    /\ pc = "write"
    /\ LET field == Head(guard.pending)
           rest == Tail(guard.pending)
       IN  /\ shared_state' = [shared_state EXCEPT ![field] = guard.target[field]]
           /\ guard' = [guard EXCEPT !.pending = rest,
                                     !.held = write_guard(rest)]
           /\ pc' = IF rest # <<>> THEN "write"
                    ELSE IF lastResult = "Ok" THEN "tick" ELSE "exited"
    /\ UNCHANGED <<app, player, lastOp, lastResult, prevIndex, lastLog,
                   observed, pure, task>>
    /\ UNCHANGED Bus

\* a getter of the adapter: RwLock::read waits while a write guard is held
AdapterRead ==
    /\ pc # "exited"
    /\ ~guard.held
    /\ \E property \in DOMAIN observed :
         observed' = [observed EXCEPT
                        ![property] = ReadProperty(shared_state, property)]
    /\ UNCHANGED <<app, player, shared_state, pc, lastOp, lastResult,
                   prevIndex, lastLog, guard, pure, task>>
    /\ UNCHANGED Bus

NextGuard ==
    \/ KeyPressGuarded
    \/ WriteField
    \/ AdapterRead
    \/ NoKey
    \/ TickBegin
    \/ TickEnd
    \/ SinkAdvance

SpecGuard == Init /\ [][NextGuard]_vars

(***************************************************************************)
(* Building the queue: the keys that play and enqueue from the library     *)
(* tabs and from the search results, while tracks end.                     *)
(***************************************************************************)
QueueKeys == {"a", "Enter", "Tab", "3", "s"}

KeyPressQueue == KeyPressOf(QueueKeys)

NextQueue ==
    \/ KeyPressQueue
    \/ SearchKeyPress
    \/ NoKey
    \/ TickBegin
    \/ TickEnd
    \/ SinkEnd

SpecQueue == Init /\ [][NextQueue]_vars

(***************************************************************************)
(* Refreshing the library while a track plays and an MPRIS client sends    *)
(* commands.                                                               *)
(***************************************************************************)
LibraryAt(i) == {Cmd("Pause", 0), Cmd("Next", 0)}

AdapterLibrary == AdapterCallOf(LibraryAt(sent + 1), MaxSends)

LibraryKeys == {"Enter", "Tab"}

KeyPressLibrary == KeyPressOf(LibraryKeys)

NextLibrary ==
    \/ AdapterLibrary
    \/ KeyPressLibrary
    \/ RefreshBegin
    \/ RefreshEnd
    \/ NoKey
    \/ TickBegin
    \/ ApplyCommand
    \/ TickEnd
    \/ SinkEnd

SpecLibrary == Init /\ [][NextLibrary]_vars

(***************************************************************************)
(* config.rs: Config::validate.  A String is the sequence of its           *)
(* characters.                                                             *)
(***************************************************************************)
MaxFieldLen == 1

is_empty(string) == Len(string) = 0

starts_with(string, prefix) ==
    /\ Len(string) >= Len(prefix)
    /\ SubSeq(string, 1, Len(prefix)) = prefix

\* a validation that looks at the user name before the server_url
validate_username_first(config) ==
    IF is_empty(config.username)
    THEN "username cannot be empty"
    ELSE IF is_empty(config.server_url)
    THEN "server_url cannot be empty"
    ELSE IF /\ ~starts_with(config.server_url, <<"h", "t", "t", "p", "s", ":", "/", "/">>)
            /\ ~starts_with(config.server_url, <<"h", "t", "t", "p", ":", "/", "/">>)
    THEN "server_url must start with http:// or https://"
    ELSE IF is_empty(config.password)
    THEN "password cannot be empty"
    ELSE IF is_empty(config.secret)
    THEN "secret cannot be empty"
    ELSE "Ok"

\* the ValidationError is named by its message, Ok(()) by "Ok"
validate(config) ==
    IF is_empty(config.server_url)
    THEN "server_url cannot be empty"
    ELSE IF /\ ~starts_with(config.server_url, <<"h", "t", "t", "p", "s", ":", "/", "/">>)
            /\ ~starts_with(config.server_url, <<"h", "t", "t", "p", ":", "/", "/">>)
    THEN "server_url must start with http:// or https://"
    ELSE IF is_empty(config.username)
    THEN "username cannot be empty"
    ELSE IF is_empty(config.password)
    THEN "password cannot be empty"
    ELSE IF is_empty(config.secret)
    THEN "secret cannot be empty"
    ELSE "Ok"

UrlInputs ==
    {<<>>,
     <<"h", "t", "t", "p", ":", "/", "/">>,
     <<"h", "t", "t", "p", "s", ":", "/", "/">>,
     <<"h", "t", "t", "p", ":", "/", "/", "h">>,
     <<"h", "t", "t", "p", "s", ":", "/", "/", "h">>,
     <<"f", "t", "p", ":", "/", "/", "h">>,
     <<"h", "t", "t", "p", ":", "/">>,
     <<"h">>,
     <<"x", "h", "t", "t", "p", ":", "/", "/">>,
     <<"H", "t", "t", "p", ":", "/", "/", "h">>,
     <<"h", "t", "t", "p", "s", ":", "/", "h">>,
     <<":", "/", "/">>}

\* the user name, password and secret of a configuration file
FieldInputs ==
    UNION {[1..n -> {"a", " "}] : n \in 0..MaxFieldLen}

ConfigInputs ==
    [server_url : UrlInputs, username : FieldInputs, password : FieldInputs,
     secret : FieldInputs]

InitConfig ==
    /\ InitProgram
    /\ \E config \in ConfigInputs :
         pure = [done |-> FALSE, input |-> config, output |-> "None"]

\* Config::load validates the configuration it parsed
Validate ==
    /\ ~pure.done
    /\ pure' = [pure EXCEPT !.done = TRUE, !.output = validate(pure.input)]
    /\ UNCHANGED <<app, player, shared_state, pc, lastOp, lastResult,
                   prevIndex, lastLog, guard, observed, task>>
    /\ UNCHANGED Bus

NextConfig == Validate

SpecConfig == InitConfig /\ [][NextConfig]_vars

(***************************************************************************)
(* The volume keys of run_app and an MPRIS client that sets the volume.    *)
(***************************************************************************)
VolumeKeys == {"+", "-"}

KeyPressVolume == KeyPressOf(VolumeKeys)

AdapterVolume ==
    AdapterCallOf({Cmd("SetVolume", v) : v \in VolumeInputs}, MaxSends)

NextVolume ==
    \/ AdapterVolume
    \/ KeyPressVolume
    \/ NoKey
    \/ TickBegin
    \/ ApplyCommand
    \/ TickEnd

SpecVolume == Init /\ [][NextVolume]_vars

(***************************************************************************)
(* search.rs: SearchEngine::search.  What SkimMatcherV2::fuzzy_match        *)
(* answers for the query on a field of a track is part of the input: None  *)
(* (NoMatch) or Some(score).                                               *)
(***************************************************************************)
MaxTracks == 2

NoMatch == -1

ScoreInputs == {NoMatch, 1, 2}

\* the answers of the matcher for title, artist, album and "artist title"
MatchInputs ==
    {[title |-> t, artist |-> a, album |-> b, combined |-> c] :
        t \in ScoreInputs, a \in {NoMatch, 2}, b \in {NoMatch, 1},
        c \in {NoMatch, 2}}

SearchInputs ==
    [query : {<<>>, <<"q">>},
     tracks : UNION {[1..n -> MatchInputs] : n \in 0..MaxTracks},
     threshold : {0, 1, 2},
     max_results : {1, 2}]

\* the body of the loop over the tracks: best_score starts at 0 and a field
\* replaces it when it matched with a greater score
best_score(match) ==
    LET s1 == IF match.title # NoMatch /\ match.title > 0
              THEN match.title ELSE 0
        s2 == IF match.artist # NoMatch /\ match.artist > s1
              THEN match.artist ELSE s1
        s3 == IF match.album # NoMatch /\ match.album > s2
              THEN match.album ELSE s2
        s4 == IF match.combined # NoMatch /\ match.combined > s3
              THEN match.combined ELSE s3
    IN  s4

RECURSIVE candidates(_, _, _)
\* results.push for the tracks from position i on, in the order of tracks
candidates(tracks, threshold, i) ==
    IF i > Len(tracks) THEN <<>>
    ELSE (IF best_score(tracks[i]) >= threshold
          THEN <<[track |-> i, score |-> best_score(tracks[i])]>>
          ELSE <<>>)
         \o candidates(tracks, threshold, i + 1)

\* the place of a result in a list sorted by falling score: behind every
\* result whose score is not smaller
insert(sorted, result) ==
    LET before == Cardinality({i \in DOMAIN sorted :
                                 sorted[i].score >= result.score})
    IN  SubSeq(sorted, 1, before) \o <<result>>
        \o SubSeq(sorted, before + 1, Len(sorted))

RECURSIVE sort_by(_)
\* slice::sort_by(|a, b| b.score.cmp(&a.score)), a stable sort
sort_by(results) ==
    IF results = <<>> THEN <<>>
    ELSE insert(sort_by(SubSeq(results, 1, Len(results) - 1)),
                results[Len(results)])

truncate(results, len) == SubSeq(results, 1, Min(Len(results), len))

\* a search that does not sort its results
search_unsorted(engine) ==
    IF is_empty(engine.query) THEN <<>>
    ELSE truncate(candidates(engine.tracks, engine.threshold, 1),
                  engine.max_results)

search(engine) ==
    IF is_empty(engine.query) THEN <<>>
    ELSE truncate(sort_by(candidates(engine.tracks, engine.threshold, 1)),
                  engine.max_results)

InitSearch ==
    /\ InitProgram
    /\ \E engine \in SearchInputs :
         pure = [done |-> FALSE, input |-> engine, output |-> <<>>]

Search ==
    /\ ~pure.done
    /\ pure' = [pure EXCEPT !.done = TRUE, !.output = search(pure.input)]
    /\ UNCHANGED <<app, player, shared_state, pc, lastOp, lastResult,
                   prevIndex, lastLog, guard, observed, task>>
    /\ UNCHANGED Bus

NextSearch == Search

SpecSearch == InitSearch /\ [][NextSearch]_vars

(***************************************************************************)
(* The scopes of the guards in app/playback.rs, app/mpris.rs and            *)
(* App::update.  A path of an operation is the sequence of its events:     *)
(*   "lock"    self.player.lock().await, the guard is held from here       *)
(*   "unlock"  the guard of the player mutex goes out of scope             *)
(*   "write"   self.shared_state.write(); "unwrite" drops that guard       *)
(*   "read"    self.shared_state.read(); "unread" drops that guard         *)
(*   "await"   any other .await                                            *)
(*   "err"     a `?` that returns an error: the scopes end, guards drop    *)
(***************************************************************************)
fails(path) == path # <<>> /\ path[Len(path)] = "err"

\* the paths of a first part that returns early, and those that go on
Then(first, second) ==
    {a \in first : fails(a)}
    \cup {a \o b : a \in {x \in first : ~fails(x)}, b \in second}

locks_sync_mpris == {<<"lock", "unlock", "write", "unwrite", "await">>}

locks_update_mpris_position ==
    {<<>>, <<"lock", "unlock", "write", "unwrite">>}

\* fetch_and_cache_image is awaited when the track has cover art
locks_notify_now_playing == {<<>>, <<"await">>}

locks_load_cover_art_for_track == {<<>>, <<"await">>}

locks_start_playback ==
    {<<"lock", "await", "err">>}
    \cup Then({<<"lock", "await", "unlock">>},
         Then(locks_load_cover_art_for_track,
         Then(locks_notify_now_playing,
         Then(locks_sync_mpris, {<<"await">>, <<"await", "err">>}))))

locks_play_from_queue == {<<>>} \cup locks_start_playback

\* player.lock().await.stop()?, the field assignments and sync_mpris
locks_stop_branch == Then({<<"lock", "unlock">>}, locks_sync_mpris)

locks_play_next ==
    {<<"err">>} \cup locks_play_from_queue \cup locks_stop_branch

locks_play_previous ==
    {<<"err">>} \cup locks_play_from_queue \cup locks_stop_branch

locks_stop_playback == locks_stop_branch

locks_set_volume == {<<"lock", "write", "unwrite", "await", "unlock">>}

locks_adjust_volume == Then({<<"read", "unread">>}, locks_set_volume)

locks_seek == {<<"lock", "unlock">>, <<"lock", "err">>}

locks_play_selected_section == locks_start_playback \cup locks_stop_branch

locks_play_selected ==
    locks_play_selected_section
    \cup Then(locks_start_playback, locks_sync_mpris)
    \cup Then({<<"await">>, <<"await", "err">>},
              Then(locks_start_playback, locks_sync_mpris)
              \cup locks_stop_branch)
    \cup locks_stop_branch

locks_toggle_playback ==
    Then({<<"lock", "unlock">>}, locks_sync_mpris)
    \cup {<<"err">>}
    \cup Then({<<"lock", "unlock">>},
              Then(locks_notify_now_playing, locks_sync_mpris))

locks_on_track_finished ==
    Then({<<"await">>, <<"await", "err">>},
         locks_play_selected \cup locks_play_next \cup locks_sync_mpris)

locks_check_track_finished ==
    {<<>>, <<"lock", "unlock">>}
    \cup Then({<<"lock", "unlock">>}, locks_on_track_finished)

\* an arm of Pause that calls sync_mpris before it drops the guard
locks_cmd_pause_no_drop == Then({<<"lock">>}, locks_sync_mpris)

locks_cmd_pause == Then({<<"lock", "unlock">>}, locks_sync_mpris)

locks_cmd_play ==
    Then({<<"lock", "unlock">>}, locks_sync_mpris)
    \cup locks_play_selected
    \cup {<<>>}

locks_cmd_seek ==
    {<<"lock", "write", "unwrite", "unlock">>, <<"lock", "err">>}

\* the operations of the orchestrator's task: the handlers of the keys in
\* run_app, the two calls at the head of App::update and the arms of its match
Operations ==
    [toggle_playback |-> locks_toggle_playback,
     play_selected |-> locks_play_selected,
     play_next |-> locks_play_next,
     play_previous |-> locks_play_previous,
     adjust_volume |-> locks_adjust_volume,
     seek_forward |-> locks_seek,
     check_track_finished |-> locks_check_track_finished,
     update_mpris_position |-> locks_update_mpris_position,
     Play |-> locks_cmd_play,
     Pause |-> locks_cmd_pause,
     Stop |-> locks_stop_playback,
     SetVolume |-> locks_set_volume,
     SeekRelative |-> locks_cmd_seek]

\* the task enters an operation on one of its paths
Enter ==
    /\ task.op = "None"
    /\ \E op \in DOMAIN Operations :
         \E path \in Operations[op] :
            task' = [NoTask EXCEPT !.op = op, !.path = path]
    /\ UNCHANGED <<app, player, shared_state, pc, lastOp, lastResult,
                   prevIndex, lastLog, guard, observed, pure>>
    /\ UNCHANGED Bus

\* the next event of the path.  tokio's Mutex is not reentrant: a task that
\* locks it while it holds its guard waits for itself
Advance ==
    /\ task.op # "None"
    /\ task.path # <<>>
    /\ ~task.blocked
    /\ LET event == Head(task.path)
           rest == [task EXCEPT !.path = Tail(task.path)]
       IN  task' =
             CASE event = "lock" ->
                    IF task.player THEN [task EXCEPT !.blocked = TRUE]
                    ELSE [rest EXCEPT !.player = TRUE]
               [] event = "unlock" -> [rest EXCEPT !.player = FALSE]
               [] event = "write" ->
                    IF task.write \/ task.read
                    THEN [task EXCEPT !.blocked = TRUE]
                    ELSE [rest EXCEPT !.write = TRUE]
               [] event = "unwrite" -> [rest EXCEPT !.write = FALSE]
               [] event = "read" ->
                    IF task.write THEN [task EXCEPT !.blocked = TRUE]
                    ELSE [rest EXCEPT !.read = TRUE]
               [] event = "unread" -> [rest EXCEPT !.read = FALSE]
               [] event = "err" ->
                    [rest EXCEPT !.player = FALSE, !.write = FALSE,
                                 !.read = FALSE]
               [] OTHER -> rest
    /\ UNCHANGED <<app, player, shared_state, pc, lastOp, lastResult,
                   prevIndex, lastLog, guard, observed, pure>>
    /\ UNCHANGED Bus

\* the operation returns to its caller
Return ==
    /\ task.op # "None"
    /\ task.path = <<>>
    /\ task' = [task EXCEPT !.op = "None"]
    /\ UNCHANGED <<app, player, shared_state, pc, lastOp, lastResult,
                   prevIndex, lastLog, guard, observed, pure>>
    /\ UNCHANGED Bus

NextLocks ==
    \/ Enter
    \/ Advance
    \/ Return

SpecLocks == Init /\ [][NextLocks]_vars

(***************************************************************************)
(* Properties.                                                             *)
(***************************************************************************)

\* the step of the drain loop that applies a command of this kind
Applies(kind) ==
    /\ pc = "drain"
    /\ command_channel # <<>>
    /\ Head(command_channel).cmd.kind = kind
    /\ applied' = Append(applied, Head(command_channel))

\* the sink plays nothing: there is none, or its source queue is empty
Halted(p) == ~p.sink.present \/ p.sink.empty

\* C1: the commands the channel accepted are, in the order of their
\* acceptance, first the ones update has applied and then the ones still
\* pending: each is applied at most once, in arrival order, and none is
\* applied again after it left the channel.
C1_FifoExactlyOnce == accepted = applied \o command_channel

C1_Witness ==
    /\ Len(applied) >= 3
    /\ command_channel # <<>>
    /\ dropped > 0
    /\ lastOp = "SetVolume"
    /\ shared_state.volume = 5

\* C2: the channel never holds more than 32 commands; a call made while it
\* is full drops its command and changes nothing else; every call returns
\* Ok and is possible whatever the channel holds; without a drain at most
\* 32 of the commands sent are accepted.
C2_State ==
    /\ Len(command_channel) <= ChannelCapacity
    /\ (applied = <<>> => Len(accepted) <= ChannelCapacity)
    /\ sent = Len(accepted) + dropped
    /\ (sent > 0 => adapterResult = "Ok")
    /\ (pc # "exited" /\ sent < MaxBurst => ENABLED AdapterBurst)

C2_Step ==
    (sent' = sent + 1 /\ Len(command_channel) = ChannelCapacity)
        => /\ dropped' = dropped + 1
           /\ UNCHANGED <<command_channel, accepted, app, player, shared_state, pc>>

C2_BoundedNonBlocking == [](C2_State) /\ [][C2_Step]_vars

C2_Witness ==
    /\ sent = MaxBurst
    /\ applied = <<>>
    /\ Len(command_channel) = ChannelCapacity
    /\ dropped = MaxBurst - ChannelCapacity
    /\ adapterResult = "Ok"

\* C3: every step that changes the shared PlayerState leaves its status
\* Playing iff is_playing is set, Paused iff is_playing is not set and a
\* track is current, Stopped iff neither.
C3_StatusDerived ==
    [][shared_state' # shared_state =>
         /\ shared_state'.status = "Playing" <=> app'.is_playing
         /\ shared_state'.status = "Paused"
              <=> (~app'.is_playing /\ app'.current_track # NoTrack)
         /\ shared_state'.status = "Stopped"
              <=> (~app'.is_playing /\ app'.current_track = NoTrack)]_vars

C3_Witness ==
    /\ lastOp = "Pause"
    /\ shared_state.status = "Paused"
    /\ ~app.is_playing
    /\ app.current_track # NoTrack

\* C4: applying Play with a track loaded resumes the sink and leaves the
\* status Playing; with no track and a non-empty queue it starts an entry of
\* the queue (the one at the Playing Index or the one under the cursor), the
\* Playing Index naming the entry that plays and the queue kept; with no
\* track and an empty queue it changes nothing.
C4_Play ==
    [][Applies("Play") =>
         IF app.current_track # NoTrack
         THEN /\ has_track_loaded(player') => ~player'.sink.paused
              /\ shared_state'.status = "Playing"
         ELSE IF app.queue # <<>>
         THEN lastResult' = "Ok" =>
                /\ app'.is_playing
                /\ app'.queue = app.queue
                /\ app'.playing_index \in {app.playing_index, app.queue_index}
                /\ app'.current_track = Get(app.queue, app'.playing_index)
         ELSE UNCHANGED <<app, player, shared_state>>]_vars

\* C5: applying Pause with no track loaded changes nothing; with a track
\* loaded it pauses the sink, the status becomes Paused and the current track
\* and the Playing Index are kept.
C5_Pause ==
    [][Applies("Pause") =>
         IF app.current_track = NoTrack
         THEN UNCHANGED <<app, player, shared_state>>
         ELSE /\ has_track_loaded(player') => player'.sink.paused
              /\ shared_state'.status = "Paused"
              /\ app'.current_track = app.current_track
              /\ app'.playing_index = app.playing_index]_vars

\* C6: applying Stop, whatever the state, leaves the sink with nothing to
\* play, no current track, default metadata in App and in the shared state,
\* status Stopped, and the queue and the Playing Index as they were.
C6_Stop ==
    [][Applies("Stop") =>
         /\ Halted(player')
         /\ ~app'.is_playing
         /\ app'.current_track = NoTrack
         /\ app'.metadata = DefaultMetadata
         /\ shared_state'.metadata = DefaultMetadata
         /\ shared_state'.status = "Stopped"
         /\ app'.queue = app.queue
         /\ app'.playing_index = app.playing_index]_vars

C6_Witness ==
    /\ lastOp = "Stop"
    /\ shared_state.status = "Stopped"
    /\ app.current_track = NoTrack
    /\ player.sink.present
    /\ player.sink.track # NoTrack
    /\ Len(app.queue) > 1
    /\ app.playing_index > 0

\* C7: applying TogglePlayPause pauses when the status is Playing, resumes
\* when it is Paused, and with nothing loaded and a non-empty queue starts
\* playback from the queue.
C7_Toggle ==
    [][Applies("TogglePlayPause") =>
         CASE shared_state.status = "Playing" ->
                /\ has_track_loaded(player') => player'.sink.paused
                /\ shared_state'.status = "Paused"
           [] shared_state.status = "Paused" ->
                /\ has_track_loaded(player') => ~player'.sink.paused
                /\ shared_state'.status = "Playing"
           [] OTHER ->
                app.queue # <<>> =>
                  /\ lastResult' # "NoTrackLoaded"
                  /\ lastResult' = "Ok" =>
                       /\ app'.is_playing
                       /\ app'.current_track # NoTrack
                       /\ shared_state'.status = "Playing"]_vars

\* C8: Next applied at the last queue position and Previous applied at
\* position 0 leave the sink with nothing to play, no current track, default
\* metadata and status Stopped; elsewhere a successful Next or Previous moves
\* the Playing Index by exactly one, inside the queue.
C8_LikeStop ==
    /\ Halted(player')
    /\ ~app'.is_playing
    /\ app'.current_track = NoTrack
    /\ app'.metadata = DefaultMetadata
    /\ shared_state'.status = "Stopped"

C8_NextPrevious ==
    [][/\ Applies("Next") =>
            IF app.playing_index = Len(app.queue) - 1
            THEN C8_LikeStop
            ELSE (app.playing_index < Len(app.queue) - 1 /\ lastResult' = "Ok")
                   => /\ app'.playing_index = app.playing_index + 1
                      /\ app'.playing_index < Len(app'.queue)
       /\ Applies("Previous") =>
            IF app.playing_index = 0 /\ app.queue # <<>>
            THEN C8_LikeStop
            ELSE (app.playing_index > 0 /\ lastResult' = "Ok")
                   => /\ app'.playing_index = app.playing_index - 1
                      /\ app'.playing_index < Len(app'.queue)]_vars

\* C9: when Next was applied at a Playing Index i with 0 < i < len-1 and a
\* track loaded, and Previous is applied right after it, both start-playbacks
\* succeeding, the Playing Index is i again and the current track is
\* queue[i].
C9_NextThenPrevious ==
    [][(/\ Applies("Previous")
        /\ lastOp = "Next"
        /\ lastResult = "Ok"
        /\ 0 < prevIndex
        /\ prevIndex < Len(app.queue) - 1
        /\ lastResult' = "Ok")
       => /\ app'.playing_index = prevIndex
          /\ app'.queue = app.queue
          /\ app'.current_track = Get(app.queue, prevIndex)]_vars

C9_Witness ==
    /\ Len(applied) = 2
    /\ applied[1].cmd.kind = "Next"
    /\ applied[2].cmd.kind = "Previous"
    /\ trail = <<1, 2>>
    /\ lastResult = "Ok"
    /\ Len(app.queue) = 3
    /\ app.playing_index = 1
    /\ app.current_track = Get(app.queue, 1)
    /\ app.is_playing

\* C10: when the track-finished transition runs with the repeat switch on
\* and succeeds, the Playing Index, the current track and the queue are what
\* they were before it and the status is Playing, wherever the cursor is and
\* whichever tab or section is active.
C10_RepeatOne ==
    [][(/\ pc = "tick"
        /\ lastOp' = "TrackFinished"
        /\ app.on_repeat
        /\ lastResult' = "Ok")
       => /\ app'.playing_index = app.playing_index
          /\ app'.current_track = app.current_track
          /\ app'.queue = app.queue
          /\ shared_state'.status = "Playing"]_vars

\* the step of update in which check_track_finished runs on_track_finished
Finishes == pc = "tick" /\ lastOp' = "TrackFinished"

\* C11: when the track-finished transition runs with the repeat switch off
\* and succeeds, then at the last queue position it clears the current track
\* and the metadata, publishes status Stopped, keeps the Playing Index and the
\* queue and starts nothing; at any earlier position it starts the entry at
\* Playing Index + 1.
C11_FinishedAdvanceOrStop ==
    [][(Finishes /\ ~app.on_repeat /\ lastResult' = "Ok") =>
         IF app.playing_index < Len(app.queue) - 1
         THEN /\ app'.playing_index = app.playing_index + 1
              /\ app'.current_track = Get(app.queue, app.playing_index + 1)
              /\ app'.is_playing
              /\ app'.queue = app.queue
         ELSE /\ app'.current_track = NoTrack
              /\ ~app'.is_playing
              /\ app'.metadata = DefaultMetadata
              /\ shared_state'.status = "Stopped"
              /\ shared_state'.metadata = DefaultMetadata
              /\ app'.playing_index = app.playing_index
              /\ app'.queue = app.queue
              /\ player' = player
              /\ \A i \in 1..Len(lastLog') : lastLog'[i].call # "load"]_vars

C11_Witness ==
    /\ lastOp = "TrackFinished"
    /\ lastResult = "Ok"
    /\ ~app.on_repeat
    /\ Len(app.queue) = 3
    /\ app.playing_index = 2
    /\ prevIndex = 2
    /\ app.current_track = NoTrack
    /\ shared_state.status = "Stopped"

\* C12: the track-finished transition issues the completion report of the
\* finished track exactly once, as its first call; when the report fails the
\* transition has changed nothing, so every change it makes is made after
\* the report returned.
C12_ReportFirstOnce ==
    [][Finishes =>
         /\ lastLog' # <<>>
         /\ lastLog'[1] = [call |-> "report", track |-> app.current_track]
         /\ \A i \in 2..Len(lastLog') : lastLog'[i].call # "report"
         /\ (Len(lastLog') = 1 /\ lastResult' = "Err")
              => UNCHANGED <<app, player, shared_state>>
         /\ <<app', player', shared_state'>> # <<app, player, shared_state>>
              => lastResult' = "Ok" \/ Len(lastLog') > 1]_vars

C12_Witness ==
    /\ lastOp = "TrackFinished"
    /\ lastResult = "Ok"
    /\ Len(lastLog) = 3
    /\ lastLog[1] = [call |-> "report", track |-> 1]
    /\ lastLog[2] = [call |-> "load", track |-> 2]
    /\ app.playing_index = 1
    /\ app.current_track = 2

\* C13: whenever update is about to find the current track finished while
\* playing, the orchestrator eventually has left it: a stream is loaded and
\* not at its end, or the status is Stopped; a failing completion report
\* does not prevent that.
C13_LeavesFinishedTrack ==
    (pc = "tick" /\ TrackFinishedDue(World))
        ~> (\/ shared_state.status = "Stopped"
            \/ (player.sink.present /\ ~player.sink.empty))

\* C14: an error returned while a command is applied or while the tick runs
\* its track-finished transition never ends run_app's loop.
C14_ErrorsStayLocal ==
    (/\ lastOp \notin {"None", "Key", "Space", "n", "p"}
     /\ lastResult \in {"Err", "NoTrackLoaded", "EmptyQueue"})
        => pc # "exited"

\* C15: when an operation ends in an error returned by load_url inside
\* start_playback, the App fields, the shared state and the player with the
\* stream it had loaded are what they were before the operation.
C15_FailedStartUntouched ==
    [][(/\ pc # "exited"
        /\ lastResult' = "Err"
        /\ lastLog' # <<>>
        /\ lastLog'[Len(lastLog')].call = "load")
       => UNCHANGED <<app, player, shared_state>>]_vars

\* C16: toggle, next or previous invoked from the keyboard with no track
\* loaded or with an empty queue returns NoTrackLoaded or EmptyQueue, changes
\* neither the App fields, the player nor the shared state, and does not end
\* run_app's loop.
C16_TransportSignals ==
    [][(/\ pc = "poll"
        /\ lastOp' \in {"Space", "n", "p"}
        /\ (app.current_track = NoTrack \/ app.queue = <<>>))
       => /\ lastResult' \in {"NoTrackLoaded", "EmptyQueue"}
          /\ UNCHANGED <<app, player, shared_state>>
          /\ pc' # "exited"]_vars

\* C17: after SetVolume(v) is applied the shared volume is v brought into
\* [0, 1] (0 below, 1 above, v itself inside), the player's volume is the
\* same value, and status, metadata, position, can_go_next and
\* can_go_previous of the shared state are what they were.
C17_SetVolumeClamps ==
    [][Applies("SetVolume") =>
         LET v == Head(command_channel).cmd.arg
             c == IF v < 0 THEN 0 ELSE IF v > VolumeMax THEN VolumeMax ELSE v
         IN  /\ shared_state'.volume = c
             /\ player'.volume = c
             /\ shared_state' = [shared_state EXCEPT !.volume = c]
             /\ lastResult' = "Ok"]_vars

C17_Witness ==
    /\ lastOp = "SetVolume"
    /\ Len(applied) = 5
    /\ applied[1].cmd.arg > VolumeMax
    /\ applied[5].cmd.arg < 0
    /\ shared_state.volume = 0
    /\ player.volume = 0

\* C18: Pause applied while the status is Paused, and Play applied while it
\* is Playing, leave the shared state as it was (its position aside, which
\* follows the sink while it plays) and keep the Playing Index, the current
\* track and the queue.
C18_Idempotent ==
    [][(\/ Applies("Pause") /\ shared_state.status = "Paused"
        \/ Applies("Play") /\ shared_state.status = "Playing")
       => /\ [shared_state' EXCEPT !.position = 0]
               = [shared_state EXCEPT !.position = 0]
          /\ app'.playing_index = app.playing_index
          /\ app'.current_track = app.current_track
          /\ app'.queue = app.queue]_vars

\* C19: after a SeekRelative or SeekAbsolute that returned Ok, the shared
\* position is the position the player reports after the seek, whatever
\* offset was asked for and whether the status is Playing or Paused.
C19_SeekRereadsPosition ==
    [][((Applies("SeekRelative") \/ Applies("SeekAbsolute"))
        /\ lastResult' = "Ok")
       => shared_state'.position =
            IF player'.sink.present THEN player'.sink.pos ELSE 0]_vars

C19_Witness ==
    /\ lastOp = "SeekAbsolute"
    /\ lastResult = "Ok"
    /\ shared_state.status = "Paused"
    /\ player.sink.present
    /\ applied[1].cmd.arg = 1
    /\ player.sink.pos = 0
    /\ shared_state.position = 0

\* C20: a seek the sink refuses is tolerated: the command returns Ok, the
\* drain loop goes on, and the loaded stream, is_playing, the current track
\* and the Playing Index are what they were.
C20_SeekFailureTolerated ==
    [][(Applies("SeekRelative") \/ Applies("SeekAbsolute"))
       => /\ lastResult' = "Ok"
          /\ pc' = "drain"
          /\ player'.sink.present = player.sink.present
          /\ player'.sink.track = player.sink.track
          /\ app'.is_playing = app.is_playing
          /\ app'.current_track = app.current_track
          /\ app'.playing_index = app.playing_index]_vars

\* C21: the position part of a tick (check_track_finished, then
\* update_mpris_position) copies the player's position into the shared state
\* when is_playing was set and changes nothing when it was not; unless a
\* track finished it does not touch the player, so the shared position never
\* flows back into the backend.
TickPosition == pc = "tick" /\ pc' = "drain"

C22_CommandsBeforeFinished ==
    [][Finishes => command_channel = <<>>]_vars

\* C23: every property the adapter reads (status, metadata, volume, position,
\* can-go-next, can-go-previous) is the value stored in the shared state, and
\* once SetVolume(v) was applied the volume it reads is v clamped to [0, 1].
ReadsOf(s) ==
    /\ MprisPlayer_playback_status(s) = s.status
    /\ MprisPlayer_metadata(s) = s.metadata
    /\ MprisPlayer_volume(s) = s.volume
    /\ MprisPlayer_position(s) = s.position
    /\ MprisPlayer_can_go_next(s) = s.can_go_next
    /\ MprisPlayer_can_go_previous(s) = s.can_go_previous

C23_ReadsSharedState ==
    [][/\ ReadsOf(shared_state')
       /\ (Applies("SetVolume") /\ lastResult' = "Ok")
          => MprisPlayer_volume(shared_state')
               = clamp(Head(command_channel).cmd.arg, 0, VolumeMax)]_vars

\* C24: the adapter only reads the shared state, and sync_mpris assigns
\* status, metadata, can_go_next, can_go_previous and position under one
\* write guard: a getter never returns while some of the five assignments of
\* an update are made and others are still to come.
C24_OneWriteGuard ==
    [][observed' # observed
       => /\ guard.pending = <<>>
          /\ shared_state' = shared_state]_vars

C24_Witness ==
    /\ guard.held
    /\ shared_state.status = "Playing"
    /\ shared_state.metadata = guard.target.metadata
    /\ ~shared_state.can_go_next
    /\ guard.target.can_go_next
    /\ observed.status = "Stopped"

\* C25: whenever a track is current it is the queue entry at the Playing
\* Index, after any sequence of play-selected, Play, TogglePlayPause, Next,
\* Previous, Stop, enqueue, selection moves and track-finished transitions
\* that returned Ok.
C25_CurrentIsQueueEntry ==
    (pc # "exited" /\ app.current_track # NoTrack)
        => app.current_track = Get(app.queue, app.playing_index)

\* C26: the selection cursor and the Playing Index are independent: moving
\* the selection changes neither the Playing Index, the current track,
\* is_playing nor the queue, and Next, Previous, Play, TogglePlayPause and the
\* track-finished transition never set the Playing Index from the cursor:
\* Next moves it forward by one or leaves it, Previous moves it back by one
\* or leaves it, a finished track advances it by one or leaves it, Play and
\* TogglePlayPause leave it.
MoveKeepsPlayback ==
    \A forward \in BOOLEAN :
        LET a == navigate(app, forward)
        IN  /\ a.playing_index = app.playing_index
            /\ a.current_track = app.current_track
            /\ a.is_playing = app.is_playing
            /\ a.queue = app.queue

C26_CursorIndependent ==
    /\ []MoveKeepsPlayback
    /\ [][/\ (Applies("Play") \/ Applies("TogglePlayPause"))
             => app'.playing_index = app.playing_index
          /\ (Applies("Next") \/ Finishes)
             => app'.playing_index \in {app.playing_index,
                                       app.playing_index + 1}
          /\ Applies("Previous")
             => app'.playing_index \in {app.playing_index,
                                       app.playing_index - 1}]_vars

\* C27: an enqueue (key a in a library tab, Ctrl-a on a search result) puts
\* the chosen tracks at the end of the queue: the entries that were there
\* keep their places, and the Playing Index, the current track, is_playing,
\* the player and the shared playback status are what they were.
Enqueues == pc = "poll" /\ lastOp' = "a"

C27_EnqueueAppends ==
    [][Enqueues
       => /\ Len(app'.queue) >= Len(app.queue)
          /\ SubSeq(app'.queue, 1, Len(app.queue)) = app.queue
          /\ app'.playing_index = app.playing_index
          /\ app'.current_track = app.current_track
          /\ app'.is_playing = app.is_playing
          /\ player' = player
          /\ shared_state'.status = shared_state.status]_vars

C27_Witness ==
    /\ lastOp = "a"
    /\ lastResult = "Ok"
    /\ app.is_playing
    /\ app.current_track = 2
    /\ app.playing_index = 0
    /\ app.queue = <<2, 1>>

\* C28: when a fetch of the library load fails, the load ends with that one
\* error and nothing of it is merged: tracks, artists and albums are what
\* they were before the load.
LoadFails == pc = "refresh" /\ pc' = "exited"

C28_FailedLoadMergesNothing ==
    [][LoadFails
       => /\ app'.tracks = app.tracks
          /\ app'.artists = app.artists
          /\ app'.albums = app.albums]_vars

\* C29: loading the library never blocks the orchestrator: while the
\* requests of a load are in flight the host loop can take its next step
\* (poll a key, tick, apply a command, end the tick).
LibraryLoading == pc = "refresh"

LoopStep == KeyPressLibrary \/ NoKey \/ TickBegin \/ ApplyCommand \/ TickEnd

C29_LoadingNeverBlocks == LibraryLoading => ENABLED LoopStep

\* C30: the songs of n albums arrive in messages: one with the songs of the
\* first FirstPage albums, then one for each batch of at most BatchSize of
\* the remaining albums, in order (150 albums: the albums 1-10, 11-110 and
\* 111-150), so that each album's songs are in exactly one message.
FirstPage == 10

BatchSize == 100

SongsOfAlbums(lo, hi) == [i \in 1..(hi - lo + 1) |-> lo + i - 1]

RECURSIVE Batches(_, _)
Batches(lo, n) ==
    IF lo > n THEN <<>>
    ELSE <<SongsOfAlbums(lo, Min(lo + BatchSize - 1, n))>>
         \o Batches(lo + BatchSize, n)

ExpectedMessages(n) ==
    <<SongsOfAlbums(1, Min(FirstPage, n))>> \o Batches(FirstPage + 1, n)

\* what get_all_songs hands over: its one Ok(tracks)
SongMessages(a) == <<a.tracks>>

LoadSucceeds == pc = "refresh" /\ pc' = "tick"

C30_PagedSongMessages ==
    [][LoadSucceeds
       => LET n == Len(app'.albums)
              messages == SongMessages(app')
          IN  /\ messages = ExpectedMessages(n)
              /\ \A album \in 1..n :
                    Cardinality({i \in DOMAIN messages :
                                   \E j \in DOMAIN messages[i] :
                                       messages[i][j] = album}) = 1]_vars

\* C31: validate accepts a configuration exactly when server_url is not
\* empty and starts with http:// or https:// and username, password and
\* secret are not empty; otherwise its ValidationError is that of the first
\* failing check in the order server_url empty, server_url scheme,
\* username, password, secret.
Http == <<"h", "t", "t", "p", ":", "/", "/">>

Https == <<"h", "t", "t", "p", "s", ":", "/", "/">>

C31_Validate ==
    pure.done =>
        LET config == pure.input
            url == config.server_url
            scheme == \/ Len(url) >= 7 /\ [i \in 1..7 |-> url[i]] = Http
                      \/ Len(url) >= 8 /\ [i \in 1..8 |-> url[i]] = Https
        IN  /\ pure.output = "Ok"
                  <=> /\ url # <<>>
                      /\ scheme
                      /\ config.username # <<>>
                      /\ config.password # <<>>
                      /\ config.secret # <<>>
            /\ pure.output = "server_url cannot be empty" <=> url = <<>>
            /\ pure.output = "server_url must start with http:// or https://"
                  <=> url # <<>> /\ ~scheme
            /\ pure.output = "username cannot be empty"
                  <=> url # <<>> /\ scheme /\ config.username = <<>>
            /\ pure.output = "password cannot be empty"
                  <=> /\ url # <<>> /\ scheme /\ config.username # <<>>
                      /\ config.password = <<>>
            /\ pure.output = "secret cannot be empty"
                  <=> /\ url # <<>> /\ scheme /\ config.username # <<>>
                      /\ config.password # <<>> /\ config.secret = <<>>

C31_Witness ==
    /\ pure.done
    /\ pure.input.server_url = <<"f", "t", "p", ":", "/", "/", "h">>
    /\ pure.input.username = <<>>
    /\ pure.input.password = <<>>
    /\ pure.output = "server_url must start with http:// or https://"

\* the scores of the fields of a track that matched
Matched(match) ==
    {match.title, match.artist, match.album, match.combined} \ {NoMatch}

\* the results are tracks of the set hits, each once and with its score, in
\* the order of falling score; there are as many as max_results allows, and
\* a hit that was left out scores no more than any result
ResultsOf(hits, score(_)) ==
    LET results == pure.output
        max_results == pure.input.max_results
        shown == {results[i].track : i \in DOMAIN results}
    IN  /\ shown \subseteq hits
        /\ Cardinality(shown) = Len(results)
        /\ Len(results) = Min(Cardinality(hits), max_results)
        /\ \A i \in DOMAIN results : results[i].score = score(results[i].track)
        /\ \A i, j \in DOMAIN results :
              i < j => results[i].score >= results[j].score
        /\ \A t \in hits \ shown, i \in DOMAIN results :
              score(t) <= results[i].score

\* C32 as stated: for a non-empty query search returns exactly the tracks
\* whose best match score over title, artist, album and "artist title" is at
\* least the threshold, by falling score and cut to max_results; for an
\* empty query it returns nothing.
C32_SearchAsStated ==
    pure.done =>
        LET tracks == pure.input.tracks
            BestMatch(t) ==
                CHOOSE s \in Matched(tracks[t]) :
                    \A o \in Matched(tracks[t]) : o <= s
            hits == {t \in DOMAIN tracks :
                       /\ Matched(tracks[t]) # {}
                       /\ BestMatch(t) >= pure.input.threshold}
        IN  IF pure.input.query = <<>> THEN pure.output = <<>>
            ELSE ResultsOf(hits, BestMatch)

\* C32, amended: the score of a track is its best match score over the four
\* texts, and 0 when none of them matches; for a non-empty query search
\* returns exactly the tracks whose score is at least the threshold, by
\* falling score and cut to max_results; for an empty query it returns
\* nothing.
C32_Search ==
    pure.done =>
        LET tracks == pure.input.tracks
            Score(t) ==
                CHOOSE s \in Matched(tracks[t]) \cup {0} :
                    \A o \in Matched(tracks[t]) \cup {0} : o <= s
            hits == {t \in DOMAIN tracks : Score(t) >= pure.input.threshold}
        IN  IF pure.input.query = <<>> THEN pure.output = <<>>
            ELSE ResultsOf(hits, Score)

C32_Witness ==
    /\ pure.done
    /\ pure.input.query # <<>>
    /\ pure.input.threshold = 1
    /\ pure.input.max_results = 2
    /\ Len(pure.input.tracks) = 2
    /\ Matched(pure.input.tracks[1]) = {1}
    /\ Matched(pure.input.tracks[2]) = {1, 2}
    /\ pure.output = <<[track |-> 2, score |-> 2], [track |-> 1, score |-> 1]>>

\* C33: the finished flag of the backend is true only when the loaded stream
\* reached its natural end and is not paused, and it is false after stop();
\* so the track-finished transition, with its completion report, is due only
\* for a track that played to its end.
C33_FinishedOnlyAtEnd ==
    /\ is_finished(player) => ~player.sink.stopped /\ ~player.sink.paused
    /\ TrackFinishedDue(World) => ~player.sink.stopped

C33_ReportsStoppedTrack ==
    /\ pc = "tick"
    /\ TrackFinishedDue(World)
    /\ player.sink.stopped

\* C34: in every state the shared can_go_next is true exactly when the
\* Playing Index has a successor in the queue, and can_go_previous exactly
\* when the Playing Index is greater than 0: the cases where Next or
\* Previous would start another track.
C34_CanGoMatchesPlayingIndex ==
    /\ shared_state.can_go_next
          <=> app.playing_index < saturating_sub(Len(app.queue), 1)
    /\ shared_state.can_go_previous <=> app.playing_index > 0

\* the metadata that describes the current track: the track's own when one is
\* present, the empty default when none is
MetadataOfCurrent ==
    IF app.current_track # NoTrack
    THEN track_to_metadata(app.current_track)
    ELSE DefaultMetadata

\* C35: in every state the orchestrator's metadata describes the current
\* track when one is present and is the empty default when none is, and so
\* does the shared metadata once an update has completed.
C35_MetadataDescribesCurrent ==
    /\ app.metadata = MetadataOfCurrent
    /\ pc = "poll" => shared_state.metadata = MetadataOfCurrent

\* a step of the loop that applies one command taken from the channel
AppliesCommand == pc = "drain" /\ Len(applied') = Len(applied) + 1

\* C36: applying a command of the control surface (Play, Pause, Stop,
\* TogglePlayPause, SetVolume, Next, Previous, SeekRelative, SeekAbsolute)
\* never changes the contents or the order of the queue, whichever tab and
\* section are active.
C36_CommandsKeepQueue ==
    [][AppliesCommand => app'.queue = app.queue]_vars

\* C37: in every state is_playing implies that a current track is present,
\* so on_track_finished never unwraps a missing current track.
C37_PlayingHasTrack == app.is_playing => app.current_track # NoTrack

C37_Witness ==
    /\ lastOp = "TrackFinished"
    /\ lastResult = "Ok"
    /\ app.is_playing
    /\ app.current_track # NoTrack
    /\ app.playing_index = 1

\* C38: whenever a track is current the Playing Index is a position of the
\* queue, after play-selected, queue replacement, enqueue, Next, Previous
\* and track-finished.
C38_PlayingIndexInQueue ==
    app.current_track # NoTrack => app.playing_index < Len(app.queue)

C38_Witness ==
    /\ lastOp = "TrackFinished"
    /\ lastResult = "Ok"
    /\ app.current_track = 2
    /\ app.playing_index = 1
    /\ app.queue = <<1, 2, 3>>

\* a point where the task may be suspended
Suspends(event) == event \in {"lock", "await"}

\* C39: every operation of the orchestrator runs to its end without deadlock:
\* the task never locks the player mutex while it holds a guard on it, it is
\* never suspended while it holds the write guard of the shared state, and
\* it returns with no guard held.
C39_NoSelfDeadlock ==
    /\ ~task.blocked
    /\ task.path # <<>> =>
         /\ ~(task.player /\ Head(task.path) = "lock")
         /\ ~(task.write /\ Suspends(Head(task.path)))
    /\ task.path = <<>> => ~task.player /\ ~task.write /\ ~task.read

C39_Witness ==
    /\ task.op = "SetVolume"
    /\ task.player
    /\ task.write
    /\ task.path = <<"unwrite", "await", "unlock">>

\* C40: after any sequence of volume-up, volume-down and SetVolume the
\* volume the UI displays, current_volume, equals the volume of the shared
\* state and lies within [0, 1].
C40_DisplayedVolume ==
    /\ app.current_volume = shared_state.volume
    /\ app.current_volume >= 0
    /\ app.current_volume <= VolumeMax

====
